---- MODULE Spec2Model ----
(***************************************************************************)
(* Loading of the package openfermion.hamiltonians.                        *)
(*                                                                         *)
(* The package body (src/openfermion/hamiltonians/__init__.py) is six      *)
(* "from .<submodule> import (<names>)" statements.  The model follows     *)
(* the interpreter through that body one instruction at a time:            *)
(*   IMPORT_NAME  - find the submodule in sys.modules or initialize it;    *)
(*                  a freshly initialized submodule is also set as an      *)
(*                  attribute of the package by the import machinery;      *)
(*   IMPORT_FROM / STORE_NAME - once per imported name, in list order.     *)
(* The six submodules are not part of the file: what each of them defines  *)
(* and whether its initialization raises is the environment's choice,      *)
(* limited by a fault budget.                                              *)
(***************************************************************************)
EXTENDS Naturals, Sequences, FiniteSets, TLC

VARIABLES
    state,      \* package: "unloaded", "loading", "loaded" or "failed"
    pc,         \* [stmt, k]: import statement, and position in it (0 = IMPORT_NAME)
    ns,         \* names bound in the package namespace by the body -> object
    sub,        \* per submodule: status in sys.modules, names it defines, init runs
    writes,     \* per name: STORE_NAME executions in the current load
    raised,     \* the exception raised at the failing instruction
    pkgError,   \* the exception the import of the package ended with
    imports,    \* imports of the package requested so far
    faults      \* faults the environment may still inject

vars == <<state, pc, ns, sub, writes, raised, pkgError, imports, faults>>

\* Number of imports of the package a consumer requests.
MaxImports == 3
\* Number of faults (failing initializations, undefined symbols) injected.
MaxFaults == 2

(***************************************************************************)
(* The file                                                                *)
(***************************************************************************)

\* A plausible slip: an extra symbol added to one import list.
ImportStatements_extra ==
    << [module |-> "_chemical_series",
        names  |-> <<"make_atomic_ring", "make_atomic_lattice", "make_atom">>],
       [module |-> "_hubbard",
        names  |-> <<"fermi_hubbard", "bose_hubbard">>],
       [module |-> "_jellium",
        names  |-> <<"dual_basis_kinetic", "dual_basis_potential",
                     "dual_basis_jellium_model", "jellium_model",
                     "jordan_wigner_dual_basis_jellium", "plane_wave_kinetic",
                     "plane_wave_potential">>],
       [module |-> "_mean_field_dwave",
        names  |-> <<"mean_field_dwave">>],
       [module |-> "_molecular_data",
        names  |-> <<"MolecularData", "periodic_table">>],
       [module |-> "_plane_wave_hamiltonian",
        names  |-> <<"dual_basis_external_potential", "fourier_transform",
                     "inverse_fourier_transform", "plane_wave_external_potential",
                     "plane_wave_hamiltonian",
                     "jordan_wigner_dual_basis_hamiltonian",
                     "wigner_seitz_length_scale">>] >>

\* A plausible slip: two import statements in the other order.
ImportStatements_swapped ==
    << [module |-> "_chemical_series",
        names  |-> <<"make_atomic_ring", "make_atomic_lattice", "make_atom">>],
       [module |-> "_jellium",
        names  |-> <<"dual_basis_kinetic", "dual_basis_potential",
                     "dual_basis_jellium_model", "jellium_model",
                     "jordan_wigner_dual_basis_jellium", "plane_wave_kinetic",
                     "plane_wave_potential">>],
       [module |-> "_hubbard",
        names  |-> <<"fermi_hubbard">>],
       [module |-> "_mean_field_dwave",
        names  |-> <<"mean_field_dwave">>],
       [module |-> "_molecular_data",
        names  |-> <<"MolecularData", "periodic_table">>],
       [module |-> "_plane_wave_hamiltonian",
        names  |-> <<"dual_basis_external_potential", "fourier_transform",
                     "inverse_fourier_transform", "plane_wave_external_potential",
                     "plane_wave_hamiltonian",
                     "jordan_wigner_dual_basis_hamiltonian",
                     "wigner_seitz_length_scale">>] >>

\* A plausible slip: a name of an earlier statement imported again by a later one.
ImportStatements_duplicate ==
    << [module |-> "_chemical_series",
        names  |-> <<"make_atomic_ring", "make_atomic_lattice", "make_atom">>],
       [module |-> "_hubbard",
        names  |-> <<"fermi_hubbard">>],
       [module |-> "_jellium",
        names  |-> <<"dual_basis_kinetic", "dual_basis_potential",
                     "dual_basis_jellium_model", "jellium_model",
                     "jordan_wigner_dual_basis_jellium", "plane_wave_kinetic",
                     "plane_wave_potential">>],
       [module |-> "_mean_field_dwave",
        names  |-> <<"mean_field_dwave">>],
       [module |-> "_molecular_data",
        names  |-> <<"MolecularData", "periodic_table">>],
       [module |-> "_plane_wave_hamiltonian",
        names  |-> <<"dual_basis_external_potential", "fourier_transform",
                     "inverse_fourier_transform", "plane_wave_external_potential",
                     "plane_wave_hamiltonian",
                     "jordan_wigner_dual_basis_hamiltonian",
                     "plane_wave_kinetic">>] >>

\* The six import statements of the package body, in source order.
ImportStatements ==
    << [module |-> "_chemical_series",
        names  |-> <<"make_atomic_ring", "make_atomic_lattice", "make_atom">>],
       [module |-> "_hubbard",
        names  |-> <<"fermi_hubbard">>],
       [module |-> "_jellium",
        names  |-> <<"dual_basis_kinetic", "dual_basis_potential",
                     "dual_basis_jellium_model", "jellium_model",
                     "jordan_wigner_dual_basis_jellium", "plane_wave_kinetic",
                     "plane_wave_potential">>],
       [module |-> "_mean_field_dwave",
        names  |-> <<"mean_field_dwave">>],
       [module |-> "_molecular_data",
        names  |-> <<"MolecularData", "periodic_table">>],
       [module |-> "_plane_wave_hamiltonian",
        names  |-> <<"dual_basis_external_potential", "fourier_transform",
                     "inverse_fourier_transform", "plane_wave_external_potential",
                     "plane_wave_hamiltonian",
                     "jordan_wigner_dual_basis_hamiltonian",
                     "wigner_seitz_length_scale">>] >>

NumStatements == Len(ImportStatements)

Statements == 1 .. NumStatements

\* The submodule a statement imports from, and the names it imports.
ModuleOf(i) == ImportStatements[i].module

NamesOf(i) == ImportStatements[i].names

NameSetOf(i) == { NamesOf(i)[k] : k \in 1 .. Len(NamesOf(i)) }

Submodules == { ModuleOf(i) : i \in Statements }

ImportedNames == UNION { NameSetOf(i) : i \in Statements }

(***************************************************************************)
(* Objects, namespaces, exceptions                                         *)
(***************************************************************************)

\* The object a submodule binds under a name: made by one run of its body.
Getattr(m, n) == [mod |-> m, name |-> n, gen |-> sub[m].runs]

\* The module object of an initialized submodule.
ModuleObject(m) == [mod |-> m, name |-> "<module>", gen |-> sub[m].runs]

\* A plausible slip: the package binds a copy or wrapper, not the object itself.
IMPORT_FROM_copy(m, n) == [mod |-> "hamiltonians", name |-> n, gen |-> sub[m].runs]

\* IMPORT_FROM pushes the very object found in the submodule.
IMPORT_FROM(m, n) == Getattr(m, n)

\* The attribute under which the machinery sets a submodule on its package:
\* the last component of its dotted name.
SubmoduleAttr(m) == m

\* STORE_NAME / setattr: bind (or rebind) one name.
Bind(f, n, obj) == [x \in (DOMAIN f) \cup {n} |-> IF x = n THEN obj ELSE f[x]]

NoError == [kind |-> "none", mod |-> "", name |-> ""]

\* A plausible slip: the body catches the failure and raises its own error.
Unwind_wrapped(e) == [kind |-> "ImportError", mod |-> "hamiltonians", name |-> e.mod]

\* The body has no try/except: an exception leaves it as it was raised.
Unwind(e) == e

\* Position after the instruction at p.
Advance(p) ==
    IF p.k < Len(NamesOf(p.stmt))
    THEN [stmt |-> p.stmt, k |-> p.k + 1]
    ELSE [stmt |-> p.stmt + 1, k |-> 0]

InBody == state = "loading" /\ pc.stmt \in Statements

(***************************************************************************)
(* Initial state: nothing imported yet                                     *)
(***************************************************************************)

Init ==
    /\ state = "unloaded"
    /\ pc = [stmt |-> 1, k |-> 0]
    /\ ns = << >>
    /\ sub = [m \in Submodules |-> [status |-> "absent", defs |-> {}, runs |-> 0]]
    /\ writes = [n \in ImportedNames |-> 0]
    /\ raised = NoError
    /\ pkgError = NoError
    /\ imports = 0
    /\ faults = MaxFaults

(***************************************************************************)
(* Operations                                                              *)
(***************************************************************************)

\* "import openfermion.hamiltonians" when the package is not in sys.modules
\* (first import, or import after a failed load): a fresh module object is
\* created and its body starts executing.
ImportPackage ==
    /\ state \in {"unloaded", "failed"}
    /\ imports < MaxImports
    /\ imports' = imports + 1
    /\ state' = "loading"
    /\ pc' = [stmt |-> 1, k |-> 0]
    /\ ns' = << >>
    /\ writes' = [n \in ImportedNames |-> 0]
    /\ raised' = NoError
    /\ pkgError' = NoError
    /\ UNCHANGED <<sub, faults>>

\* A plausible slip: every import initializes the submodules again and rebinds.
ImportCached_reinit ==
    /\ state = "loaded"
    /\ imports < MaxImports
    /\ imports' = imports + 1
    /\ sub' = [m \in Submodules |-> [sub[m] EXCEPT !.runs = @ + 1]]
    /\ ns' = [n \in DOMAIN ns |-> [ns[n] EXCEPT !.gen = @ + 1]]
    /\ UNCHANGED <<state, pc, writes, raised, pkgError, faults>>

\* A plausible slip: every import executes the body again (as a reload would).
ImportCached_reexec ==
    /\ state = "loaded"
    /\ imports < MaxImports
    /\ imports' = imports + 1
    /\ state' = "loading"
    /\ pc' = [stmt |-> 1, k |-> 0]
    /\ writes' = [n \in ImportedNames |-> 0]
    /\ UNCHANGED <<ns, sub, raised, pkgError, faults>>

\* "import openfermion.hamiltonians" when the package is loaded: the module
\* is taken from sys.modules and the body is not executed.
ImportCached ==
    /\ state = "loaded"
    /\ imports < MaxImports
    /\ imports' = imports + 1
    /\ UNCHANGED <<state, pc, ns, sub, writes, raised, pkgError, faults>>

\* IMPORT_NAME, submodule already in sys.modules (left there by an earlier,
\* failed load of the package): it is returned as it is; the machinery
\* neither initializes it again nor sets it on the new package object.
ImportNameCached ==
    /\ InBody
    /\ pc.k = 0
    /\ sub[ModuleOf(pc.stmt)].status = "initialized"
    /\ pc' = [stmt |-> pc.stmt, k |-> 1]
    /\ UNCHANGED <<state, ns, sub, writes, raised, pkgError, imports, faults>>

\* IMPORT_NAME, submodule not in sys.modules: it is entered there and its
\* body starts executing; the statement waits for it.
ImportNameBegin ==
    /\ InBody
    /\ pc.k = 0
    /\ sub[ModuleOf(pc.stmt)].status = "absent"
    /\ sub' = [sub EXCEPT ![ModuleOf(pc.stmt)] =
                  [status |-> "initializing", defs |-> {}, runs |-> @.runs + 1]]
    /\ UNCHANGED <<state, pc, ns, writes, raised, pkgError, imports, faults>>

\* The submodule's body ends normally.  It has defined the names the
\* statement imports, except those the environment left out.  The machinery
\* sets the submodule as an attribute of the package, and the statement
\* goes on to its first name.
SubmoduleInitDone ==
    /\ InBody
    /\ pc.k = 0
    /\ sub[ModuleOf(pc.stmt)].status = "initializing"
    /\ \E miss \in SUBSET NameSetOf(pc.stmt) :
          /\ Cardinality(miss) <= faults
          /\ faults' = faults - Cardinality(miss)
          /\ sub' = [sub EXCEPT ![ModuleOf(pc.stmt)] =
                        [status |-> "initialized",
                         defs   |-> NameSetOf(pc.stmt) \ miss,
                         runs   |-> @.runs]]
    /\ ns' = Bind(ns, SubmoduleAttr(ModuleOf(pc.stmt)), ModuleObject(ModuleOf(pc.stmt)))
    /\ pc' = [stmt |-> pc.stmt, k |-> 1]
    /\ UNCHANGED <<state, writes, raised, pkgError, imports>>

\* A plausible slip: the statement is wrapped in try/except and skipped on failure.
SubmoduleInitFail_swallowed ==
    /\ InBody
    /\ pc.k = 0
    /\ sub[ModuleOf(pc.stmt)].status = "initializing"
    /\ faults > 0
    /\ faults' = faults - 1
    /\ sub' = [sub EXCEPT ![ModuleOf(pc.stmt)] =
                  [status |-> "absent", defs |-> {}, runs |-> @.runs]]
    /\ pc' = [stmt |-> pc.stmt + 1, k |-> 0]
    /\ UNCHANGED <<state, ns, writes, raised, pkgError, imports>>

\* The submodule's body raises.  The submodule is removed from sys.modules,
\* the exception leaves the package body, and the package is removed from
\* sys.modules too.
SubmoduleInitFail ==
    /\ InBody
    /\ pc.k = 0
    /\ sub[ModuleOf(pc.stmt)].status = "initializing"
    /\ faults > 0
    /\ faults' = faults - 1
    /\ sub' = [sub EXCEPT ![ModuleOf(pc.stmt)] =
                  [status |-> "absent", defs |-> {}, runs |-> @.runs]]
    /\ raised' = [kind |-> "init_error", mod |-> ModuleOf(pc.stmt), name |-> ""]
    /\ pkgError' = Unwind(raised')
    /\ state' = "failed"
    /\ UNCHANGED <<pc, ns, writes, imports>>

\* IMPORT_FROM + STORE_NAME for a name the submodule defines.
ImportFromBind ==
    /\ InBody
    /\ pc.k >= 1
    /\ NamesOf(pc.stmt)[pc.k] \in sub[ModuleOf(pc.stmt)].defs
    /\ ns' = Bind(ns, NamesOf(pc.stmt)[pc.k],
                  IMPORT_FROM(ModuleOf(pc.stmt), NamesOf(pc.stmt)[pc.k]))
    /\ writes' = [writes EXCEPT ![NamesOf(pc.stmt)[pc.k]] = @ + 1]
    /\ pc' = Advance(pc)
    /\ UNCHANGED <<state, sub, raised, pkgError, imports, faults>>

\* IMPORT_FROM for a name the submodule does not define: ImportError.  The
\* names already stored by this statement stay bound.
ImportFromMissing ==
    /\ InBody
    /\ pc.k >= 1
    /\ NamesOf(pc.stmt)[pc.k] \notin sub[ModuleOf(pc.stmt)].defs
    /\ raised' = [kind |-> "ImportError", mod |-> ModuleOf(pc.stmt),
                  name |-> NamesOf(pc.stmt)[pc.k]]
    /\ pkgError' = Unwind(raised')
    /\ state' = "failed"
    /\ UNCHANGED <<pc, ns, sub, writes, imports, faults>>

\* The end of the body is reached: the package is loaded.
Finish ==
    /\ state = "loading"
    /\ pc.stmt = NumStatements + 1
    /\ state' = "loaded"
    /\ UNCHANGED <<pc, ns, sub, writes, raised, pkgError, imports, faults>>

Next ==
    \/ ImportPackage
    \/ ImportCached
    \/ ImportNameCached
    \/ ImportNameBegin
    \/ SubmoduleInitDone
    \/ SubmoduleInitFail
    \/ ImportFromBind
    \/ ImportFromMissing
    \/ Finish

Spec == Init /\ [][Next]_vars

(***************************************************************************)
(* Properties                                                              *)
(***************************************************************************)

\* The name list of section 6 of the specification.
ListedNames ==
    { "make_atomic_ring", "make_atomic_lattice", "make_atom", "fermi_hubbard",
      "dual_basis_kinetic", "dual_basis_potential", "dual_basis_jellium_model",
      "jellium_model", "jordan_wigner_dual_basis_jellium", "plane_wave_kinetic",
      "plane_wave_potential", "mean_field_dwave", "MolecularData",
      "periodic_table", "dual_basis_external_potential", "fourier_transform",
      "inverse_fourier_transform", "plane_wave_external_potential",
      "plane_wave_hamiltonian", "jordan_wigner_dual_basis_hamiltonian",
      "wigner_seitz_length_scale" }

\* The six submodule names as the specification gives them.
ListedSubmodules ==
    { "_chemical_series", "_hubbard", "_jellium", "_mean_field_dwave",
      "_molecular_data", "_plane_wave_hamiltonian" }

\* Names that start with an underscore: private by the language's convention
\* (the file sets no __all__).
LeadingUnderscore(n) == n \in ListedSubmodules

PublicNames == { n \in DOMAIN ns : ~LeadingUnderscore(n) }

\* The statement that imports from submodule m, and the position of name n in it.
StmtOf(m) == CHOOSE i \in Statements : ModuleOf(i) = m

IndexOf(i, n) == CHOOSE k \in 1 .. Len(NamesOf(i)) : NamesOf(i)[k] = n

\* C1: once the package is loaded, each of the 21 listed names is bound in
\* the package namespace, to the very object that a submodule defining the
\* name binds under the same name.
C1_IdentityPreservingReexport ==
    state = "loaded" =>
        \A n \in ListedNames :
            /\ n \in DOMAIN ns
            /\ \E m \in Submodules : n \in sub[m].defs /\ ns[n] = Getattr(m, n)

C1_Witness == state = "loaded" /\ ListedNames \subseteq DOMAIN ns

\* C2 as stated: once the package is loaded, the names the import
\* statements have bound in the package namespace are the 21 listed names
\* and no other, none arising as a by-product of importing the submodules.
C2_OnlyListedNamesBound == state = "loaded" => DOMAIN ns = ListedNames

\* C2 amended: the names without a leading underscore that the import
\* statements bind are listed names, and all 21 of them once the package is
\* loaded; every other bound name is the underscore-prefixed name of one of
\* the six submodules, bound to that submodule's module object, which the
\* import machinery sets when the load initializes the submodule.
C2_PublicNamesAreListed ==
    /\ PublicNames \subseteq ListedNames
    /\ state = "loaded" => PublicNames = ListedNames
    /\ (DOMAIN ns) \ ListedNames \subseteq ListedSubmodules
    /\ \A m \in Submodules :
          SubmoduleAttr(m) \in DOMAIN ns =>
              /\ sub[m].status = "initialized"
              /\ ns[SubmoduleAttr(m)] = ModuleObject(m)

C2_Witness == state = "loaded" /\ "_hubbard" \in DOMAIN ns

\* C3: an import of the package that is requested while the package is
\* loaded leaves every binding, every submodule (none is initialized again,
\* no object is constructed again) and the loaded state as they are.
C3_ReimportIdempotent ==
    [][(state = "loaded" /\ imports' # imports) =>
          (ns' = ns /\ sub' = sub /\ writes' = writes /\ state' = "loaded")]_vars

C3_Witness == state = "loaded" /\ imports = 2 /\ faults = MaxFaults

\* C4 as stated: when the load fails, the package ends with the error as it
\* was raised, and no name of the failing import statement or of a later
\* one is bound.
C4_NoNameOfFailingStatementBound ==
    state = "failed" =>
        /\ pkgError = raised
        /\ \A i \in Statements :
              i >= StmtOf(raised.mod) => NameSetOf(i) \cap DOMAIN ns = {}

\* C4 amended: when the load fails, the package ends with the error as it
\* was raised and is not loaded in that run; no name of a later import
\* statement is bound; if a submodule's initialization failed, no name of
\* its statement is bound; if a symbol is undefined, that symbol and the
\* names after it in the statement's list are not bound (the names before
\* it in the list are).
C4_FailurePropagatesUnchanged ==
    /\ (pkgError # NoError) <=> (state = "failed")
    /\ state = "failed" =>
        /\ pkgError = raised
        /\ raised.mod \in Submodules
        /\ \A i \in Statements :
              /\ i > StmtOf(raised.mod) => NameSetOf(i) \cap DOMAIN ns = {}
              /\ (i = StmtOf(raised.mod) /\ raised.kind = "init_error") =>
                    NameSetOf(i) \cap DOMAIN ns = {}
              /\ (i = StmtOf(raised.mod) /\ raised.kind = "ImportError") =>
                    \A k \in 1 .. Len(NamesOf(i)) :
                        (NamesOf(i)[k] \in DOMAIN ns) <=> (k < IndexOf(i, raised.name))

C4_Witness ==
    /\ state = "failed"
    /\ raised.kind = "ImportError"
    /\ raised.name = "make_atomic_lattice"
    /\ "make_atomic_ring" \in DOMAIN ns

\* C5: a name is bound in the package namespace only when the submodule it
\* is imported from has completed its initialization, and the package is
\* loaded only when all six submodules have.
C5_InitializedBeforeBound ==
    /\ \A i \in Statements :
          \A n \in NameSetOf(i) \cap DOMAIN ns :
              sub[ModuleOf(i)].status = "initialized"
    /\ state = "loaded" =>
          \A m \in ListedSubmodules :
              m \in Submodules /\ sub[m].status = "initialized"

C5_Witness ==
    /\ state = "loading"
    /\ "fermi_hubbard" \in DOMAIN ns
    /\ sub["_jellium"].status = "initializing"

\* C6: the loaded state is entered only by the load reaching the end of the
\* body, and once it is entered it is never left and no binding changes.
C6_LoadedIsFinal ==
    [][/\ state = "loaded" => (state' = "loaded" /\ ns' = ns)
       /\ (state # "loaded" /\ state' = "loaded") =>
              (state = "loading" /\ pc.stmt = NumStatements + 1 /\ ns' = ns)]_vars

C6_Witness == state = "loaded" /\ imports = MaxImports /\ faults = MaxFaults

\* The submodule each name is taken from, and the order of the six import
\* statements, as claim C7 gives them.
ClaimedOrder ==
    << "_chemical_series", "_hubbard", "_jellium", "_mean_field_dwave",
       "_molecular_data", "_plane_wave_hamiltonian" >>

ClaimedNames(m) ==
    CASE m = "_chemical_series" ->
            {"make_atomic_ring", "make_atomic_lattice", "make_atom"}
      [] m = "_hubbard" -> {"fermi_hubbard"}
      [] m = "_jellium" ->
            {"dual_basis_kinetic", "dual_basis_potential",
             "dual_basis_jellium_model", "jellium_model",
             "jordan_wigner_dual_basis_jellium", "plane_wave_kinetic",
             "plane_wave_potential"}
      [] m = "_mean_field_dwave" -> {"mean_field_dwave"}
      [] m = "_molecular_data" -> {"MolecularData", "periodic_table"}
      [] m = "_plane_wave_hamiltonian" ->
            {"dual_basis_external_potential", "fourier_transform",
             "inverse_fourier_transform", "plane_wave_external_potential",
             "plane_wave_hamiltonian", "jordan_wigner_dual_basis_hamiltonian",
             "wigner_seitz_length_scale"}

\* C7: every bound name holds an object of the submodule the claim names
\* for it, and the statements run in the claimed order: a later statement's
\* submodule is touched, or one of its names bound, only when every name of
\* each earlier statement is bound.
C7_FixedOriginAndOrder ==
    /\ \A p \in 1 .. Len(ClaimedOrder) :
          \A n \in ClaimedNames(ClaimedOrder[p]) \cap DOMAIN ns :
              ns[n].mod = ClaimedOrder[p]
    /\ \A p, q \in 1 .. Len(ClaimedOrder) :
          (/\ p < q
           /\ state = "loading"
           /\ \/ ClaimedNames(ClaimedOrder[q]) \cap DOMAIN ns # {}
              \/ sub[ClaimedOrder[q]].status = "initializing")
          => ClaimedNames(ClaimedOrder[p]) \subseteq DOMAIN ns
    /\ state = "loaded" =>
          \A p \in 1 .. Len(ClaimedOrder) :
              ClaimedNames(ClaimedOrder[p]) \subseteq DOMAIN ns

C7_Witness ==
    /\ state = "loading"
    /\ "fermi_hubbard" \in DOMAIN ns
    /\ "dual_basis_kinetic" \notin DOMAIN ns
    /\ "MolecularData" \notin DOMAIN ns

\* C8: the imported names are pairwise distinct; in one load no name is
\* stored more than once, a loaded package has stored each exactly once,
\* and each bound name holds the object of its own statement's submodule.
C8_EachNameWrittenOnce ==
    /\ \A i, j \in Statements : i # j => NameSetOf(i) \cap NameSetOf(j) = {}
    /\ \A i \in Statements : Cardinality(NameSetOf(i)) = Len(NamesOf(i))
    /\ \A n \in ImportedNames :
          /\ writes[n] <= 1
          /\ (n \in DOMAIN ns) <=> (writes[n] = 1)
          /\ state = "loaded" => writes[n] = 1
    /\ \A i \in Statements :
          \A n \in NameSetOf(i) \cap DOMAIN ns : ns[n] = Getattr(ModuleOf(i), n)

C8_Witness ==
    /\ state = "loaded"
    /\ \A n \in ListedNames : writes[n] = 1
    /\ faults < MaxFaults

====
